---- MODULE Spec2Model ----
(***************************************************************************)
(* Quindar break-in communicator (src/src/main.rs).                        *)
(*                                                                         *)
(* POST /play handlers push TransmissionRequests on an unbounded mpsc      *)
(* channel; one worker (transmission_queue_processor) receives them one at *)
(* a time and runs process_transmission: toast, provider resolution, the   *)
(* speech fetch in a spawned task, the playback in a blocking task.        *)
(* The spawned tasks are modelled as records in ttsTasks / playTasks that  *)
(* step on their own; the worker only moves on when its join is ready.     *)
(***************************************************************************)
EXTENDS Naturals, Integers, Sequences, FiniteSets, TLC

VARIABLES
    env,        \* process environment (std::env::var), fixed after load_env_file
    queue,      \* the mpsc channel's buffered TransmissionRequests
    tx_alive,   \* AppState still holds the UnboundedSender
    rx_open,    \* the UnboundedReceiver has not been dropped
    next_id,    \* number of requests handled so far + 1 (tags requests in arrival order)
    response,   \* body returned by the last play_tone_handler call
    pc,         \* where the worker is in transmission_queue_processor/process_transmission
    req,        \* the request the worker is processing (NoReq between items)
    steps,      \* what the worker has done for the current item, in order
    ttsTasks,   \* spawned tts_task futures (tokio::spawn), running or awaiting join
    playTasks,  \* spawned playback closures (spawn_blocking), running or awaiting join
    started,    \* ids in the order the worker received them
    renderLog,  \* output-sink history: <<"start", id>> / <<"end", id>>
    last,       \* how the most recently ended item ended
    call        \* a tone generator being evaluated on its own (NoCall in the server model)

vars == <<call, env, queue, tx_alive, rx_open, next_id, response, pc, req, steps,
          ttsTasks, playTasks, started, renderLog, last>>

-----------------------------------------------------------------------------
(* Bounds *)

\* number of POST /play requests accepted in one run
MaxReq == 3

-----------------------------------------------------------------------------
(* Strings that the code case-folds are sequences of one-character strings *)

NotSet == <<"<unset>">>

to_uppercase_char(c) ==
    CASE c = "a" -> "A" [] c = "b" -> "B" [] c = "c" -> "C" [] c = "d" -> "D"
      [] c = "e" -> "E" [] c = "f" -> "F" [] c = "g" -> "G" [] c = "h" -> "H"
      [] c = "i" -> "I" [] c = "j" -> "J" [] c = "k" -> "K" [] c = "l" -> "L"
      [] c = "m" -> "M" [] c = "n" -> "N" [] c = "o" -> "O" [] c = "p" -> "P"
      [] c = "q" -> "Q" [] c = "r" -> "R" [] c = "s" -> "S" [] c = "t" -> "T"
      [] c = "u" -> "U" [] c = "v" -> "V" [] c = "w" -> "W" [] c = "x" -> "X"
      [] c = "y" -> "Y" [] c = "z" -> "Z" [] OTHER -> c

to_uppercase(s) == [i \in 1..Len(s) |-> to_uppercase_char(s[i])]

\* str::eq_ignore_ascii_case
eq_ignore_ascii_case(a, b) == to_uppercase(a) = to_uppercase(b)

\* String::to_lowercase() == "true", on ASCII input
lowercase_is_true(s) == to_uppercase(s) = <<"T", "R", "U", "E">>

-----------------------------------------------------------------------------
(* Enums *)

Edge == "Edge"
OpenAI == "OpenAI"

Quindar == "Quindar"
NoTone == "None"
ThreeNote == "ThreeNote"

\* TtsProvider::from_env: exact match on DEFAULT_TTS, anything else is Edge
TtsProvider_from_env(e) ==
    IF e.DEFAULT_TTS = <<"O", "P", "E", "N", "A", "I">> THEN OpenAI ELSE Edge

\* ToneType::from_str
ToneType_from_str(s) ==
    LET u == to_uppercase(s) IN
    IF u \in {<<"N", "O", "-", "T", "O", "N", "E">>, <<"N", "O", "N", "E">>}
    THEN NoTone
    ELSE IF u \in {<<"T", "H", "R", "E", "E", "-", "N", "O", "T", "E">>,
                   <<"T", "H", "R", "E", "E", "-", "N", "O", "T", "E", "-", "C", "H", "I", "M", "E">>,
                   <<"C", "H", "I", "M", "E">>}
    THEN ThreeNote
    ELSE Quindar

\* ToneType::from_env
ToneType_from_env(e) ==
    IF e.DEFAULT_TONE # NotSet THEN ToneType_from_str(e.DEFAULT_TONE) ELSE Quindar

is_headless_mode_exact(e) == e.HEADLESS_MODE = <<"t", "r", "u", "e">>

\* is_headless_mode
is_headless_mode(e) ==
    /\ e.HEADLESS_MODE # NotSet
    /\ \/ eq_ignore_ascii_case(e.HEADLESS_MODE, <<"t", "r", "u", "e">>)
       \/ e.HEADLESS_MODE = <<"1">>

\* std::env::var("OPENAI_API_KEY").is_err()
api_key_missing(e) == e.OPENAI_API_KEY = NotSet

-----------------------------------------------------------------------------
(* Inputs *)

\* values of the environment variables the code reads
TtsValues == {NotSet, <<"O", "P", "E", "N", "A", "I">>}
KeyValues == {NotSet, <<"s", "k">>}
HeadlessValues == {NotSet, <<"T", "r", "u", "e">>}
DefaultToneValues == {NotSet}
ToastEnvValues == {NotSet}

Envs ==
    [DEFAULT_TTS : TtsValues, OPENAI_API_KEY : KeyValues,
     HEADLESS_MODE : HeadlessValues, DEFAULT_TONE : DefaultToneValues,
     ENABLE_TOAST_NOTIFICATIONS : ToastEnvValues]

\* no environment variable read by the code is set
UnsetEnv ==
    [DEFAULT_TTS |-> NotSet, OPENAI_API_KEY |-> NotSet, HEADLESS_MODE |-> NotSet,
     DEFAULT_TONE |-> NotSet, ENABLE_TOAST_NOTIFICATIONS |-> NotSet]

\* PlayRequest.tone: Option<String>
NoneOpt == <<"<none>">>
ToneInputs ==
    {NoneOpt, <<"N", "o", "n", "e">>, <<"n", "o", "-", "t", "o", "n", "e">>,
     <<"C", "h", "i", "m", "e">>, <<"q", "u", "i", "n", "d", "a", "r">>}

\* PlayRequest.enable_toast: Option<bool>, as the JSON literal received
ToastInputs == {"null", "true", "false"}

\* PlayRequest.volume: f32, in halves (4 is 2.0); default_volume()
default_volume == 4
VolumeInputs == {default_volume}

NoReq == [id |-> 0, tone_type |-> Quindar, volume |-> default_volume,
          enable_toast |-> FALSE]
NoLast == [id |-> 0, kind |-> "none", segs |-> <<>>]
NoCall == [fn |-> "none"]

Queued == "Transmission queued successfully!"
QueueError == "Error: Failed to queue transmission"

-----------------------------------------------------------------------------
(* The channel: tokio::sync::mpsc::unbounded_channel *)

send_ok_bounded(q, open) == open /\ Len(q) < 1

\* UnboundedSender::send succeeds iff the receiver is still there
send_ok(q, open) == open

\* UnboundedSender::send appends at the tail
send(q, item) == Append(q, item)

recv_item_newest(q) == q[Len(q)]

\* UnboundedReceiver::recv hands out the oldest buffered message
recv_item(q) == Head(q)

recv_rest_keeps_item(q) == q

recv_none_when_empty(q, alive) == q = <<>>

\* UnboundedReceiver::recv yields None only once the channel is empty and every
\* sender has been dropped
recv_none(q, alive) == q = <<>> /\ ~alive

\* ... and removes it from the channel
recv_rest(q) == Tail(q)

-----------------------------------------------------------------------------
\* main has bound the channel, spawned the worker and serves: nothing queued yet
Boot ==
    /\ queue = <<>>
    /\ tx_alive = TRUE
    /\ rx_open = TRUE
    /\ next_id = 1
    /\ response = "none"
    /\ pc = "recv"
    /\ req = NoReq
    /\ steps = <<>>
    /\ ttsTasks = {}
    /\ playTasks = {}
    /\ started = <<>>
    /\ renderLog = <<>>
    /\ last = NoLast
    /\ call = NoCall

Init == env \in Envs /\ Boot

-----------------------------------------------------------------------------
(* play_tone_handler: build the TransmissionRequest and enqueue it *)

select_tone_default_first(tone, e) ==
    IF e.DEFAULT_TONE # NotSet THEN ToneType_from_str(e.DEFAULT_TONE)
    ELSE IF tone # NoneOpt THEN ToneType_from_str(tone) ELSE Quindar

\* payload.tone.as_ref().map(from_str).unwrap_or_else(ToneType::from_env)
select_tone_type(tone, e) ==
    IF tone # NoneOpt THEN ToneType_from_str(tone) ELSE ToneType_from_env(e)

play_tone_handler(tone, enable_toast_in, volume) ==
    LET tone_type == select_tone_type(tone, env)
        enable_toast == IF enable_toast_in # "null" THEN enable_toast_in = "true"
                        ELSE IF env.ENABLE_TOAST_NOTIFICATIONS # NotSet
                             THEN lowercase_is_true(env.ENABLE_TOAST_NOTIFICATIONS)
                             ELSE FALSE
        transmission == [id |-> next_id, tone_type |-> tone_type,
                         volume |-> volume, enable_toast |-> enable_toast]
    IN
    /\ next_id <= MaxReq
    /\ next_id' = next_id + 1
    /\ IF send_ok(queue, rx_open)
       THEN /\ queue' = send(queue, transmission)
            /\ response' = Queued
       ELSE /\ queue' = queue
            /\ response' = QueueError
    /\ UNCHANGED <<call, env, tx_alive, rx_open, pc, req, steps, ttsTasks, playTasks,
                   started, renderLog, last>>

Enqueue ==
    \E tone \in ToneInputs, t \in ToastInputs, volume \in VolumeInputs :
        play_tone_handler(tone, t, volume)

-----------------------------------------------------------------------------
(* transmission_queue_processor and process_transmission: the worker *)

loop_breaks_on_failure(kind) == IF kind = "completed" THEN "recv" ELSE "stopped"

\* while let Some(req) = rx.recv().await { process_transmission(req).await; }:
\* whatever way the item ended, the loop goes back to recv
loop_next(kind) == "recv"

join_without_waiting(t) == TRUE

\* tts_task.await: resolves only once the spawned fetch has ended
tts_join_ready(t) == t.result # "running"

\* spawn_blocking(...).await: resolves only once the playback closure has ended
play_join_ready(t) == t.result # "running"

credential_never_checked(tts_provider, e) == FALSE

\* if tts_provider == OpenAI && env::var("OPENAI_API_KEY").is_err() { return; }
credential_missing(tts_provider, e) == tts_provider = OpenAI /\ api_key_missing(e)

\* a joined task is gone; one still running keeps running
Reap(tasks, t) == IF t.result # "running" THEN tasks \ {t} ELSE tasks

fetch_errors_fall_through(result) == TRUE

\* match tts_task.await: only Ok(Ok(bytes)) goes on to playback
fetch_ok(result) == result \in {"ok_mp3", "ok_garbage"}

\* the Err arms: Ok(Err(e)) is a backend error, Err(e) a JoinError
fetch_failure_kind(result) ==
    IF result = "panicked" THEN "fetch_panic" ELSE "fetch_error"

\* what spawn_blocking's closure and its join leave behind
play_outcome_kind(result) ==
    CASE result = "ok" -> "completed"
      [] result = "panicked" -> "play_panic"
      [] result = "err_decode" -> "decode_error"
      [] OTHER -> "device_error"

\* process_transmission returns: the request is dropped
EndItem(kind, segs) ==
    /\ last' = [id |-> req.id, kind |-> kind, segs |-> segs]
    /\ pc' = loop_next(kind)
    /\ req' = NoReq

WorkerRecv ==
    /\ pc = "recv"
    /\ rx_open
    /\ IF queue # <<>>
       THEN /\ req' = recv_item(queue)
            /\ queue' = recv_rest(queue)
            /\ started' = Append(started, recv_item(queue).id)
            /\ steps' = <<>>
            /\ pc' = "toast"
            /\ UNCHANGED rx_open
       ELSE \* None ends the while let loop; the function returns and drops rx
            /\ recv_none(queue, tx_alive)
            /\ pc' = "stopped"
            /\ rx_open' = FALSE
            /\ UNCHANGED <<req, queue, started, steps>>
    /\ UNCHANGED <<call, env, tx_alive, next_id, response, ttsTasks, playTasks,
                   renderLog, last>>

toast_always(r) == TRUE

\* if req.enable_toast { show_toast_notification(..) }
toast_wanted(r) == r.enable_toast

\* show_toast_notification: shown or failed, logged either way
WorkerToast ==
    /\ pc = "toast"
    /\ IF toast_wanted(req)
       THEN \E shown \in BOOLEAN :
                steps' = Append(steps, IF shown THEN "toast_shown" ELSE "toast_failed")
       ELSE steps' = steps
    /\ pc' = "resolve"
    /\ UNCHANGED <<call, env, queue, tx_alive, rx_open, next_id, response, req,
                   ttsTasks, playTasks, started, renderLog, last>>

NewTtsTask(id, provider) ==
    [id |-> id, provider |-> provider,
     at |-> IF provider = OpenAI THEN "unwrap_key" ELSE "connect",
     attempt |-> IF provider = OpenAI THEN 0 ELSE 1,
     last_error |-> "",
     log |-> <<>>,
     slept_ms |-> 0,
     result |-> "running"]

\* provider resolution, credential check, tokio::spawn of the fetch
WorkerResolve ==
    /\ pc = "resolve"
    /\ LET tts_provider == TtsProvider_from_env(env) IN
       IF credential_missing(tts_provider, env)
       THEN /\ steps' = Append(steps, "resolve")
            /\ EndItem("config_error", <<>>)
            /\ UNCHANGED ttsTasks
       ELSE /\ steps' = steps \o <<"resolve", "spawn_tts">>
            /\ ttsTasks' = ttsTasks \cup {NewTtsTask(req.id, tts_provider)}
            /\ pc' = "await_tts"
            /\ UNCHANGED <<req, last>>
    /\ UNCHANGED <<call, env, queue, tx_alive, rx_open, next_id, response, playTasks,
                   started, renderLog>>

playback_tone_from_env(r, e) == ToneType_from_env(e)

\* let tone_type = req.tone_type: the variant stored in the request
playback_tone(r, e) == r.tone_type

\* fetched: what the fetch handed over ("ok_mp3": bytes the decoder accepts)
\* stream: the samples appended to the sink, in units of 1/32768 of full scale
NewPlayTask(id, tone_type, volume, fetched) ==
    [id |-> id, tone_type |-> tone_type, volume |-> volume, fetched |-> fetched,
     at |-> "open", sink |-> <<>>, stream |-> <<>>, consumed |-> 0,
     result |-> "running"]

\* match tts_task.await { ... } and, on success, spawn_blocking of the playback
WorkerJoinTts ==
    /\ pc = "await_tts"
    /\ \E t \in ttsTasks :
        /\ t.id = req.id
        /\ tts_join_ready(t)
        /\ ttsTasks' = Reap(ttsTasks, t)
        /\ IF fetch_ok(t.result)
           THEN /\ steps' = steps \o <<"join_tts", "spawn_play">>
                /\ playTasks' = playTasks \cup
                      {NewPlayTask(req.id, playback_tone(req, env), req.volume, t.result)}
                /\ pc' = "await_play"
                /\ UNCHANGED <<req, last>>
           ELSE /\ steps' = Append(steps, "join_tts")
                /\ EndItem(fetch_failure_kind(t.result), <<>>)
                /\ UNCHANGED playTasks
    /\ UNCHANGED <<call, env, queue, tx_alive, rx_open, next_id, response, started,
                   renderLog>>

\* spawn_blocking(...).await, then "Transmission complete!"
WorkerJoinPlay ==
    /\ pc = "await_play"
    /\ \E t \in playTasks :
        /\ t.id = req.id
        /\ play_join_ready(t)
        /\ playTasks' = Reap(playTasks, t)
        /\ steps' = Append(steps, "join_play")
        /\ EndItem(play_outcome_kind(t.result), t.sink)
    /\ UNCHANGED <<call, env, queue, tx_alive, rx_open, next_id, response, ttsTasks,
                   started, renderLog>>

-----------------------------------------------------------------------------
(* The fetch task: get_edge_tts with its retry loop, or get_openai_tts *)

max_retries == 3
retry_delay_ms == 300

should_retry_one_short(attempt) == attempt < max_retries - 1

should_retry_always(attempt) == attempt <= max_retries

\* if attempt < max_retries { sleep(300 ms); continue; }
should_retry(attempt) == attempt < max_retries

\* for attempt in 1..=max_retries: is there a next iteration
loop_has_next(attempt) == attempt + 1 <= max_retries

SetTts(t, u) == ttsTasks' = (ttsTasks \ {t}) \cup {u}

TtsUnchanged ==
    UNCHANGED <<call, env, queue, tx_alive, rx_open, next_id, response, pc, req, steps,
                playTasks, started, renderLog, last>>

\* after a failed step of attempt t.attempt, with last_error already set to err
edge_after_failure(t, err, ev) ==
    IF should_retry(t.attempt)
    THEN [t EXCEPT !.last_error = err, !.log = Append(@, ev), !.at = "sleep"]
    ELSE [t EXCEPT !.last_error = err, !.log = Append(@, ev), !.at = "done",
                   !.result = "err_" \o err]

\* connect_async().await
EdgeConnect ==
    /\ \E t \in ttsTasks :
        /\ t.result = "running" /\ t.at = "connect"
        /\ \E ok \in BOOLEAN :
            SetTts(t, IF ok
                      THEN [t EXCEPT !.log = Append(@, "connect_ok"), !.at = "synthesize"]
                      ELSE edge_after_failure(t, "connect", "connect_err"))
    /\ TtsUnchanged

\* client.synthesize(text, &config).await
EdgeSynthesize ==
    /\ \E t \in ttsTasks :
        /\ t.result = "running" /\ t.at = "synthesize"
        /\ \E out \in {"ok_mp3", "ok_garbage", "err"} :
            SetTts(t, IF out # "err"
                      THEN [t EXCEPT !.log = Append(@, "synthesize_ok"), !.at = "done",
                                     !.result = out]
                      ELSE edge_after_failure(t, "synthesize", "synthesize_err"))
    /\ TtsUnchanged

\* tokio::time::sleep(300 ms).await; continue
EdgeSleep ==
    /\ \E t \in ttsTasks :
        /\ t.result = "running" /\ t.at = "sleep"
        /\ SetTts(t, IF loop_has_next(t.attempt)
                     THEN [t EXCEPT !.log = Append(@, "sleep"),
                                    !.slept_ms = @ + retry_delay_ms,
                                    !.attempt = @ + 1, !.at = "connect"]
                     ELSE [t EXCEPT !.log = Append(@, "sleep"),
                                    !.slept_ms = @ + retry_delay_ms,
                                    !.at = "done", !.result = "err_" \o t.last_error])
    /\ TtsUnchanged

\* std::env::var("OPENAI_API_KEY").unwrap() inside the spawned task
OpenAIKey ==
    /\ \E t \in ttsTasks :
        /\ t.result = "running" /\ t.at = "unwrap_key"
        /\ SetTts(t, IF api_key_missing(env)
                     THEN [t EXCEPT !.at = "done", !.result = "panicked"]
                     ELSE [t EXCEPT !.at = "send"])
    /\ TtsUnchanged

\* client.post(...).send().await and the status check
OpenAISend ==
    /\ \E t \in ttsTasks :
        /\ t.result = "running" /\ t.at = "send"
        /\ \E out \in {"ok", "err_send", "err_status"} :
            SetTts(t, IF out = "ok"
                      THEN [t EXCEPT !.attempt = 1, !.log = Append(@, "send_ok"),
                                     !.at = "read"]
                      ELSE [t EXCEPT !.attempt = 1, !.log = Append(@, "send_err"),
                                     !.at = "done", !.result = out])
    /\ TtsUnchanged

\* response.bytes().await
OpenAIRead ==
    /\ \E t \in ttsTasks :
        /\ t.result = "running" /\ t.at = "read"
        /\ \E out \in {"ok_mp3", "ok_garbage", "err_read"} :
            SetTts(t, [t EXCEPT !.log = Append(@, "read"), !.at = "done", !.result = out])
    /\ TtsUnchanged

\* the task panics inside a library call: the JoinHandle yields Err(JoinError)
TtsPanic ==
    /\ \E t \in ttsTasks :
        /\ t.result = "running" /\ t.at \in {"connect", "synthesize", "send", "read"}
        /\ SetTts(t, [t EXCEPT !.at = "done", !.result = "panicked"])
    /\ TtsUnchanged

-----------------------------------------------------------------------------
(* The playback task: play_tones_and_audio inside spawn_blocking *)

SetPlay(t, u) == playTasks' = (playTasks \ {t}) \cup {u}

PlayUnchanged ==
    UNCHANGED <<call, env, queue, tx_alive, rx_open, next_id, response, pc, req, steps,
                ttsTasks, started, last>>

opening_segment_skipped(tone_type) == <<>>

\* first match tone_type, before Decoder::new
opening_segment(tone_type) ==
    CASE tone_type = Quindar -> <<"quindar_500">>
      [] tone_type = ThreeNote -> <<"three_note_chime">>
      [] OTHER -> <<>>

closing_segment(tone_type) ==
    CASE tone_type = Quindar -> <<"quindar_250">>
      [] tone_type = ThreeNote -> <<"closing_chime">>
      [] OTHER -> <<>>

\* the samples a tone generator returned (f32), cut down to a few of them:
\* silence first, then the peak of the tone (0.5, 0.5 * 0.25, 0.35 of full scale)
tone_samples(seg) ==
    CASE seg = "quindar_500" -> <<0, 16384, -16384, 16384>>
      [] seg = "quindar_250" -> <<0, 16384, -16384>>
      [] seg = "three_note_chime" -> <<0, 4096, -4096>>
      [] seg = "closing_chime" -> <<0, 11468>>

\* Decoder::new(cursor): the decoder's 16-bit samples of the fetched speech
decoded(fetched) == <<3, 1000, -20000, 32767>>

i16_min == -32768
i16_max == 32767

trunc_half(x) == IF x >= 0 THEN x \div 2 ELSE -((-x) \div 2)

amplify_unclipped(m, volume) == trunc_half(m * volume)

\* Amplify<Decoder>: ((m as f32) * volume) as i16, a cast that rounds toward
\* zero and saturates (volume in halves)
amplify(m, volume) ==
    LET product == trunc_half(m * volume) IN
    IF product > i16_max THEN i16_max
    ELSE IF product < i16_min THEN i16_min
    ELSE product

\* what the appended source yields: a tone as generated, the speech amplified
source_samples(t, seg) ==
    IF seg = "speech"
    THEN [k \in 1..Len(decoded(t.fetched)) |-> amplify(decoded(t.fetched)[k], t.volume)]
    ELSE tone_samples(seg)

appended_samples(t, segs) == IF segs = <<>> THEN <<>> ELSE source_samples(t, segs[1])

sink_push_front(t, segs) ==
    [t EXCEPT !.sink = segs \o @, !.stream = appended_samples(t, segs) \o @]

\* sink.append queues the source behind what the sink already holds
sink_append(t, segs) ==
    [t EXCEPT !.sink = @ \o segs, !.stream = @ \o appended_samples(t, segs)]

log_append(t, segs) ==
    IF t.sink = <<>> /\ segs # <<>> THEN Append(renderLog, <<"start", t.id>>)
    ELSE renderLog

\* the function returns: _stream and sink are dropped, rendering of the item stops
log_return(t) ==
    IF t.sink # <<>> THEN Append(renderLog, <<"end", t.id>>) ELSE renderLog

\* headless check, OutputStream::try_default, Sink::try_new
PlayOpen ==
    /\ \E t \in playTasks :
        /\ t.result = "running" /\ t.at = "open"
        /\ IF is_headless_mode(env)
           THEN SetPlay(t, [t EXCEPT !.at = "done", !.result = "ok"])
           ELSE \E out \in {"ok", "err_stream", "err_sink"} :
                    SetPlay(t, IF out = "ok" THEN [t EXCEPT !.at = "opening"]
                               ELSE [t EXCEPT !.at = "done", !.result = out])
    /\ UNCHANGED renderLog
    /\ PlayUnchanged

\* first match tone_type: the opening tone
PlayOpeningTone ==
    /\ \E t \in playTasks :
        /\ t.result = "running" /\ t.at = "opening"
        /\ SetPlay(t, [sink_append(t, opening_segment(t.tone_type)) EXCEPT !.at = "decode"])
        /\ renderLog' = log_append(t, opening_segment(t.tone_type))
    /\ PlayUnchanged

\* Decoder::new(cursor)?, amplify(volume), sink.append
PlayDecode ==
    /\ \E t \in playTasks :
        /\ t.result = "running" /\ t.at = "decode"
        /\ IF t.fetched = "ok_mp3"
           THEN /\ SetPlay(t, [sink_append(t, <<"speech">>) EXCEPT !.at = "closing"])
                /\ renderLog' = log_append(t, <<"speech">>)
           ELSE /\ SetPlay(t, [t EXCEPT !.at = "done", !.result = "err_decode"])
                /\ renderLog' = log_return(t)
    /\ PlayUnchanged

\* second match tone_type: the closing tone
PlayClosingTone ==
    /\ \E t \in playTasks :
        /\ t.result = "running" /\ t.at = "closing"
        /\ SetPlay(t, [sink_append(t, closing_segment(t.tone_type)) EXCEPT !.at = "sleep_until_end"])
        /\ renderLog' = log_append(t, closing_segment(t.tone_type))
    /\ PlayUnchanged

\* the sink's audio thread finishes the segment it is playing
SinkConsume ==
    /\ \E t \in playTasks :
        /\ t.result = "running" /\ t.consumed < Len(t.sink)
        /\ SetPlay(t, [t EXCEPT !.consumed = @ + 1])
    /\ UNCHANGED renderLog
    /\ PlayUnchanged

sink_never_drained(t) == FALSE

\* sink.sleep_until_end() returns once the sink is empty; Ok(())
sink_drained(t) == t.consumed = Len(t.sink)

PlaySleepUntilEnd ==
    /\ \E t \in playTasks :
        /\ t.result = "running" /\ t.at = "sleep_until_end"
        /\ sink_drained(t)
        /\ SetPlay(t, [t EXCEPT !.at = "done", !.result = "ok"])
        /\ renderLog' = log_return(t)
    /\ PlayUnchanged

\* the closure panics inside the audio library: the join yields Err(JoinError);
\* the headless return comes before the first library call
PlayPanic ==
    /\ \E t \in playTasks :
        /\ t.result = "running"
        /\ ~(t.at = "open" /\ is_headless_mode(env))
        /\ SetPlay(t, [t EXCEPT !.at = "done", !.result = "panicked"])
        /\ renderLog' = log_return(t)
    /\ PlayUnchanged

-----------------------------------------------------------------------------
Next ==
    \/ Enqueue
    \/ WorkerRecv
    \/ WorkerToast
    \/ WorkerResolve
    \/ WorkerJoinTts
    \/ WorkerJoinPlay
    \/ EdgeConnect
    \/ EdgeSynthesize
    \/ EdgeSleep
    \/ OpenAIKey
    \/ OpenAISend
    \/ OpenAIRead
    \/ TtsPanic
    \/ PlayOpen
    \/ PlayOpeningTone
    \/ PlayDecode
    \/ PlayClosingTone
    \/ SinkConsume
    \/ PlaySleepUntilEnd
    \/ PlayPanic

Spec == Init /\ [][Next]_vars

\* the steps of the worker and of the tasks it spawned: everything but the
\* arrival of requests and the panics
Progress ==
    \/ WorkerRecv
    \/ WorkerToast
    \/ WorkerResolve
    \/ WorkerJoinTts
    \/ WorkerJoinPlay
    \/ EdgeConnect
    \/ EdgeSynthesize
    \/ EdgeSleep
    \/ OpenAIKey
    \/ OpenAISend
    \/ OpenAIRead
    \/ PlayOpen
    \/ PlayOpeningTone
    \/ PlayDecode
    \/ PlayClosingTone
    \/ SinkConsume
    \/ PlaySleepUntilEnd

\* the tokio runtime keeps polling whichever task is ready, and every network
\* call, sleep and sink drain comes to an end
\* Edge with the audio device, OpenAI with its key in headless mode, OpenAI
\* without its key
FairEnvs ==
    {UnsetEnv,
     [UnsetEnv EXCEPT !.DEFAULT_TTS = <<"O", "P", "E", "N", "A", "I">>,
                      !.OPENAI_API_KEY = <<"s", "k">>,
                      !.HEADLESS_MODE = <<"T", "r", "u", "e">>],
     [UnsetEnv EXCEPT !.DEFAULT_TTS = <<"O", "P", "E", "N", "A", "I">>]}

InitFair == env \in FairEnvs /\ Boot

SpecFair == InitFair /\ [][Next]_vars /\ WF_vars(Progress)

-----------------------------------------------------------------------------
(* The handler's tone selection on its own, over spellings of tone and DEFAULT_TONE *)

ToneSpellings ==
    {NoneOpt,
     <<"n", "o", "n", "e">>,
     <<"N", "O", "N", "E">>,
     <<"N", "o", "-", "T", "o", "n", "e">>,
     <<"t", "h", "r", "e", "e", "-", "n", "o", "t", "e">>,
     <<"T", "h", "r", "e", "e", "-", "N", "o", "t", "e", "-", "C", "h", "i", "m", "e">>,
     <<"C", "H", "I", "M", "E">>,
     <<"q", "u", "i", "n", "d", "a", "r">>,
     <<"n", "o", "n", "e", "e">>,
     <<"n", "o", " ", "t", "o", "n", "e">>,
     <<"t", "h", "r", "e", "e">>,
     <<>>}

DefaultToneSpellings ==
    {NotSet,
     <<"n", "o", "n", "e">>,
     <<"C", "H", "I", "M", "E">>,
     <<"T", "h", "r", "e", "e", "-", "N", "o", "t", "e">>,
     <<"q", "u", "i", "n", "d", "a", "r">>,
     <<"b", "o", "g", "u", "s">>}

ToneEnvs ==
    [DEFAULT_TTS : {NotSet}, OPENAI_API_KEY : {NotSet}, HEADLESS_MODE : {NotSet},
     DEFAULT_TONE : DefaultToneSpellings, ENABLE_TOAST_NOTIFICATIONS : {NotSet}]

CallUnchanged ==
    UNCHANGED <<env, queue, tx_alive, rx_open, next_id, response, pc, req, steps,
                ttsTasks, playTasks, started, renderLog, last>>

\* a POST /play body arrives with this tone field
SelectToneCall ==
    /\ call.fn \in {"none", "select_tone_type"}
    /\ call.fn = "select_tone_type" => call.out # "pending"
    /\ \E tone \in ToneSpellings :
        call' = [fn |-> "select_tone_type", tone |-> tone, out |-> "pending"]
    /\ CallUnchanged

\* let tone_type = ...
SelectToneReturn ==
    /\ call.fn = "select_tone_type" /\ call.out = "pending"
    /\ call' = [call EXCEPT !.out = select_tone_type(call.tone, env)]
    /\ CallUnchanged

InitTone == env \in ToneEnvs /\ Boot

NextTone == SelectToneCall \/ SelectToneReturn

SpecTone == InitTone /\ [][NextTone]_vars

-----------------------------------------------------------------------------
(* generate_quindar_tone_samples(duration_ms: u32) on its own.               *)
(* u32 products are computed in 12-bit limbs, so that the 32-bit wrap of     *)
(* sample_rate * duration_ms is the code's and no intermediate value leaves  *)
(* the checker's integers; duration_ms itself is drawn below 2^31.           *)

sample_rate == 48000
attack_ms == 50
release_ms == 50

Limb == 4096
TopLimb == 256

\* a * d as <<low limb, middle limb, everything from bit 24 up>>
wide_mul(a, d) ==
    LET p0 == a * (d % Limb)
        p1 == a * ((d \div Limb) % Limb) + (p0 \div Limb)
        p2 == a * (d \div (Limb * Limb)) + (p1 \div Limb)
    IN <<p0 % Limb, p1 % Limb, p2>>

\* the product does not fit in 32 bits
overflows_u32(w) == w[3] >= TopLimb

\* wrapping_mul: the low 32 bits
wrap_u32(w) == <<w[1], w[2], w[3] % TopLimb>>

\* a 32-bit value in limbs divided by a small divisor (long division)
wide_div(w, by) ==
    LET a1 == (w[3] % by) * Limb + w[2]
        a0 == (a1 % by) * Limb + w[1]
    IN ((w[3] \div by) * Limb + (a1 \div by)) * Limb + (a0 \div by)

\* let total_samples = sample_rate * duration_ms / 1000, in u32: with overflow
\* checks (debug profile) an overflowing product panics, without (release
\* profile) it wraps
total_samples(duration_ms, overflow_checks) ==
    LET w == wide_mul(sample_rate, duration_ms) IN
    IF overflows_u32(w) /\ overflow_checks
    THEN [panicked |-> TRUE, n |-> 0]
    ELSE [panicked |-> FALSE, n |-> wide_div(wrap_u32(w), 1000)]

attack_samples == (sample_rate * attack_ms) \div 1000
release_samples == (sample_rate * release_ms) \div 1000

envelope_fade_out_first(i, total) ==
    IF total < release_samples THEN -1
    ELSE IF i > total - release_samples THEN total - i
    ELSE IF i < attack_samples THEN i
    ELSE release_samples

\* the envelope of sample i, in units of 1/attack_samples = 1/release_samples
\* (both 2400): i / attack_samples, (total - i) / release_samples, or 1.0
\* (-1 stands for the u32 underflow of total_samples - release_samples)
envelope(i, total) ==
    IF i < attack_samples THEN i
    ELSE IF total < release_samples THEN -1
    ELSE IF i > total - release_samples THEN total - i
    ELSE release_samples

\* (0..total_samples).map(..).collect(): the envelope of each sample, in order
quindar_envelopes(total) == [k \in 1..total |-> envelope(k - 1, total)]

\* requested durations, in ms; the last five make sample_rate * duration_ms
\* leave 32 bits
DurationInputs ==
    {0, 1, 2, 10, 20, 40, 49, 50, 51, 60, 75, 99, 100, 101, 120, 150, 200, 250, 300,
     400, 500, 600, 750, 1000, 89479, 89480, 90000, 178957, 268436}

QuindarCall ==
    /\ call.fn \in {"none", "generate_quindar_tone_samples"}
    /\ call.fn = "generate_quindar_tone_samples" => call.status # "pending"
    /\ \E d \in DurationInputs, checks \in BOOLEAN :
        call' = [fn |-> "generate_quindar_tone_samples", duration_ms |-> d,
                 overflow_checks |-> checks, status |-> "pending", envelopes |-> <<>>]
    /\ CallUnchanged

QuindarReturn ==
    /\ call.fn = "generate_quindar_tone_samples" /\ call.status = "pending"
    /\ LET total == total_samples(call.duration_ms, call.overflow_checks) IN
       call' = IF total.panicked
               THEN [call EXCEPT !.status = "panicked"]
               ELSE [call EXCEPT !.status = "returned",
                                 !.envelopes = quindar_envelopes(total.n)]
    /\ CallUnchanged

InitQuindar == env = UnsetEnv /\ Boot

NextQuindar == QuindarCall \/ QuindarReturn

SpecQuindar == InitQuindar /\ [][NextQuindar]_vars

-----------------------------------------------------------------------------
(* generate_three_note_chime() on its own, one inner-loop iteration per step *)
(* (usize arithmetic: nothing here comes near the word size)                 *)

note_duration_ms == 800
note_overlap_ms == 300
chime_attack_ms == 10
echo1_ms == 120
echo2_ms == 240
note_count == 3

note_samples == (sample_rate * note_duration_ms) \div 1000
overlap_samples == (sample_rate * note_overlap_ms) \div 1000
chime_attack_samples == (sample_rate * chime_attack_ms) \div 1000

note_spacing_no_overlap == note_samples

\* let note_spacing = note_samples - overlap_samples
note_spacing == note_samples - overlap_samples

\* first note + (spacing * 2 notes) + extra 500 ms decay
total_length == note_samples + (note_spacing * 2) + (sample_rate \div 2)

start_position_without_overlap(idx) == idx * note_samples

\* let start_position = idx * note_spacing
start_position(idx) == idx * note_spacing

\* let mut result = vec![0.0; total_length]
ChimeCall ==
    /\ call.fn \in {"none", "generate_three_note_chime"}
    /\ call.fn = "generate_three_note_chime" => call.status = "returned"
    /\ call' = [fn |-> "generate_three_note_chime", status |-> "running",
                len |-> total_length, idx |-> 0, i |-> 0,
                start_position |-> start_position(0),
                position |-> 0, echo1_pos |-> 0, echo2_pos |-> 0,
                writes |-> 0, skipped |-> 0]
    /\ CallUnchanged

\* one iteration of for i in 0..note_samples, for note idx: the three guarded
\* additions into result, then on to the next sample or the next note
ChimeSample ==
    /\ call.fn = "generate_three_note_chime" /\ call.status = "running"
    /\ call.idx < note_count
    /\ LET position == start_position(call.idx) + call.i
           echo1_pos == position + (sample_rate * echo1_ms) \div 1000
           echo2_pos == position + (sample_rate * echo2_ms) \div 1000
           inside == Cardinality({x \in {position, echo1_pos, echo2_pos} : x < call.len})
           last_sample == call.i + 1 = note_samples
       IN
       call' = [call EXCEPT
                  !.start_position = start_position(call.idx),
                  !.position = position,
                  !.echo1_pos = echo1_pos,
                  !.echo2_pos = echo2_pos,
                  !.writes = inside,
                  !.skipped = @ + (3 - inside),
                  !.i = IF last_sample THEN 0 ELSE @ + 1,
                  !.idx = IF last_sample THEN @ + 1 ELSE @]
    /\ CallUnchanged

\* result
ChimeReturn ==
    /\ call.fn = "generate_three_note_chime" /\ call.status = "running"
    /\ call.idx = note_count
    /\ call' = [call EXCEPT !.status = "returned"]
    /\ CallUnchanged

InitChime == env = UnsetEnv /\ Boot

NextChime == ChimeCall \/ ChimeSample \/ ChimeReturn

SpecChime == InitChime /\ [][NextChime]_vars

-----------------------------------------------------------------------------
(* One playback on its own: the worker has fetched the speech of request 1   *)
(* and spawned play_tones_and_audio with the request's volume and tone       *)

\* PlayRequest.volume values, in halves: 0.0, 0.5, 1.0, 1.5, 2.0, 4.0
PlayVolumes == {0, 1, 2, 3, default_volume, 8}

PlayEnvs ==
    [DEFAULT_TTS : {NotSet}, OPENAI_API_KEY : {NotSet},
     HEADLESS_MODE : {NotSet, <<"1">>}, DEFAULT_TONE : {NotSet},
     ENABLE_TOAST_NOTIFICATIONS : {NotSet}]

InitPlay ==
    /\ env \in PlayEnvs
    /\ \E tone_type \in {Quindar, NoTone, ThreeNote}, volume \in PlayVolumes,
          fetched \in {"ok_mp3", "ok_garbage"} :
        /\ req = [id |-> 1, tone_type |-> tone_type, volume |-> volume,
                  enable_toast |-> FALSE]
        /\ playTasks = {NewPlayTask(1, tone_type, volume, fetched)}
    /\ queue = <<>>
    /\ tx_alive = TRUE
    /\ rx_open = TRUE
    /\ next_id = 2
    /\ response = Queued
    /\ pc = "await_play"
    /\ steps = <<"resolve", "spawn_tts", "join_tts", "spawn_play">>
    /\ ttsTasks = {}
    /\ started = <<1>>
    /\ renderLog = <<>>
    /\ last = NoLast
    /\ call = NoCall

NextPlay ==
    \/ PlayOpen
    \/ PlayOpeningTone
    \/ PlayDecode
    \/ PlayClosingTone
    \/ SinkConsume
    \/ PlaySleepUntilEnd
    \/ PlayPanic
    \/ WorkerJoinPlay

SpecPlay == InitPlay /\ [][NextPlay]_vars

-----------------------------------------------------------------------------
(* The server with its configuration changing while requests wait: every     *)
(* std::env::var call reads the environment as it is at that moment.  The    *)
(* requests leave tone and enable_toast to the process defaults.             *)

EnvBefore ==
    [DEFAULT_TTS |-> NotSet, OPENAI_API_KEY |-> <<"s", "k">>, HEADLESS_MODE |-> NotSet,
     DEFAULT_TONE |-> <<"c", "h", "i", "m", "e">>,
     ENABLE_TOAST_NOTIFICATIONS |-> <<"T", "r", "u", "e">>]

EnvAfter ==
    [DEFAULT_TTS |-> <<"O", "P", "E", "N", "A", "I">>, OPENAI_API_KEY |-> <<"s", "k">>,
     HEADLESS_MODE |-> NotSet, DEFAULT_TONE |-> <<"n", "o", "n", "e">>,
     ENABLE_TOAST_NOTIFICATIONS |-> NotSet]

\* the process environment is switched from one configuration to the other
EnvChange ==
    /\ env' = IF env = EnvBefore THEN EnvAfter ELSE EnvBefore
    /\ UNCHANGED <<call, queue, tx_alive, rx_open, next_id, response, pc, req, steps,
                   ttsTasks, playTasks, started, renderLog, last>>

\* POST /play with neither tone nor enable_toast in the body
EnqueueDefaults == play_tone_handler(NoneOpt, "null", default_volume)

InitReconfig == env = EnvBefore /\ Boot

NextReconfig ==
    \/ EnvChange
    \/ EnqueueDefaults
    \/ WorkerRecv
    \/ WorkerToast
    \/ WorkerResolve
    \/ WorkerJoinTts
    \/ WorkerJoinPlay
    \/ EdgeConnect
    \/ EdgeSynthesize
    \/ EdgeSleep
    \/ OpenAIKey
    \/ OpenAISend
    \/ OpenAIRead
    \/ TtsPanic
    \/ PlayOpen
    \/ PlayOpeningTone
    \/ PlayDecode
    \/ PlayClosingTone
    \/ SinkConsume
    \/ PlaySleepUntilEnd
    \/ PlayPanic

SpecReconfig == InitReconfig /\ [][NextReconfig]_vars

-----------------------------------------------------------------------------
\* the same server started under each spelling of HEADLESS_MODE
HeadlessSpellings ==
    {<<"t", "r", "u", "e">>, <<"T", "R", "U", "E">>, <<"t", "R", "u", "E">>,
     <<"0">>, <<"t", "r", "u", "e", "e">>}

\* ... fetching from Edge, and under HEADLESS_MODE=1 fetching from OpenAI
HeadlessEnvs ==
    {[UnsetEnv EXCEPT !.HEADLESS_MODE = h] : h \in HeadlessSpellings}
    \cup {[UnsetEnv EXCEPT !.HEADLESS_MODE = <<"1">>,
                           !.DEFAULT_TTS = <<"O", "P", "E", "N", "A", "I">>,
                           !.OPENAI_API_KEY = <<"s", "k">>]}

InitHeadless == env \in HeadlessEnvs /\ Boot

SpecHeadless == InitHeadless /\ [][Next]_vars

-----------------------------------------------------------------------------
(* Properties *)

Range(f) == {f[i] : i \in DOMAIN f}

Count(f, S) == Cardinality({i \in DOMAIN f : f[i] \in S})

Rendering(t) == t.result = "running" /\ t.sink # <<>>

FetchFailures == {"fetch_error", "fetch_panic"}

Failures ==
    {"config_error", "fetch_error", "fetch_panic", "device_error", "decode_error",
     "play_panic"}

\* C1: at most one request is being rendered at any instant; the rendering
\* intervals in the sink history are closed one after the other (start i, end i,
\* start j, end j, ...) and start in strictly increasing enqueue order.
C1_OneRenderingAtATime ==
    /\ Cardinality({t \in playTasks : Rendering(t)}) <= 1
    /\ \A i \in 1..Len(renderLog) :
        /\ renderLog[i][1] = (IF i % 2 = 1 THEN "start" ELSE "end")
        /\ i % 2 = 0 => renderLog[i][2] = renderLog[i - 1][2]
        /\ (i % 2 = 1 /\ i > 2) => renderLog[i][2] > renderLog[i - 2][2]
    /\ Len(renderLog) % 2 = 1 =>
        \E t \in playTasks : Rendering(t) /\ t.id = renderLog[Len(renderLog)][2]

\* a second item is being rendered after the first one's rendering ended, while a
\* third one waits in the queue
C1_Witness ==
    /\ Len(renderLog) = 3
    /\ renderLog[1][2] = 1
    /\ \E t \in playTasks : Rendering(t) /\ t.id = 2 /\ Len(t.sink) = 3
    /\ Len(queue) = 1

\* C2: the worker receives the requests in exactly the order they were enqueued,
\* none skipped, whatever way the earlier ones ended.
C2_StrictFifo ==
    /\ \A i \in 1..Len(started) : started[i] = i
    /\ \A i \in 1..Len(queue) : queue[i].id = Len(started) + i
    /\ Len(started) + Len(queue) = next_id - 1

\* the first item failed, the second is being processed, the third waits
C2_Witness ==
    /\ started = <<1, 2>>
    /\ Len(queue) = 1
    /\ last.id = 1 /\ last.kind = "decode_error"
    /\ pc = "await_play"

\* C3: every task in flight belongs to the item the worker is processing; at most
\* one fetch is in flight, never together with a playback, and the worker is not
\* receiving or starting an item while any task is in flight.
C3_OneItemAtATime ==
    /\ Cardinality(ttsTasks) + Cardinality(playTasks) <= 1
    /\ \A t \in ttsTasks : t.id = req.id /\ pc = "await_tts"
    /\ \A t \in playTasks : t.id = req.id /\ pc = "await_play"
    /\ pc \in {"recv", "toast", "resolve"} => ttsTasks = {} /\ playTasks = {}
    /\ \A i \in 1..Len(queue) : queue[i].id > req.id

\* the fetch of item 2 is in its retry delay while item 3 waits in the queue
C3_Witness ==
    /\ \E t \in ttsTasks : t.id = 2 /\ t.at = "sleep" /\ t.attempt = 2
    /\ Len(queue) = 1
    /\ last.id = 1 /\ last.kind = "completed"

\* C4: a handler call is possible in every worker state, and every call answers
\* "Transmission queued successfully!" with the request appended at the tail.
C4_EnqueueNeverBlocks ==
    /\ [](next_id <= MaxReq => ENABLED Enqueue)
    /\ [][next_id' # next_id =>
            /\ response' = Queued
            /\ queue' = Append(queue, queue'[Len(queue')])
            /\ queue'[Len(queue')].id = next_id]_vars

\* a request was queued behind another one while the worker sits in the retry
\* delay of a fetch, and a further call is possible
C4_Witness ==
    /\ response = Queued
    /\ Len(queue) = 1 /\ queue[1].id = 2
    /\ pc = "await_tts"
    /\ \E t \in ttsTasks : t.at = "sleep"
    /\ ENABLED Enqueue

WorkerIdle == pc = "recv" /\ req = NoReq /\ ttsTasks = {} /\ playTasks = {}

\* C5: the worker loop never stops; when an item has ended, whatever the way, the
\* worker is back at recv with nothing left over from the item, and receives the
\* next queued item.
C5_FailuresDoNotStopWorker ==
    /\ pc # "stopped"
    /\ rx_open
    /\ pc = "recv" => WorkerIdle
    /\ (pc = "recv" /\ queue # <<>>) => ENABLED WorkerRecv
    /\ last.kind \in Failures \cup {"none", "completed"}

\* item 1 was rendered, item 2 ended on a panicked fetch task, and item 3 is
\* being rendered
C5_Witness ==
    /\ last.id = 2 /\ last.kind = "fetch_panic"
    /\ req.id = 3
    /\ \E t \in playTasks : Rendering(t)
    /\ renderLog[1] = <<"start", 1>>

\* C6: a request is received at most once and never comes back to the queue; an
\* ended item is not the one in processing; one provider resolution, one fetch
\* task and one playback per item at most.
C6_ConsumedOnce ==
    /\ \A i, j \in 1..Len(started) : started[i] = started[j] => i = j
    /\ \A i \in 1..Len(queue) : queue[i].id \notin Range(started)
    /\ req # NoReq => req.id = started[Len(started)]
    /\ last.id # 0 => /\ last.id \in Range(started)
                      /\ req # NoReq => req.id # last.id
    /\ Count(steps, {"resolve"}) <= 1
    /\ Count(steps, {"spawn_tts"}) <= 1
    /\ Count(steps, {"spawn_play"}) <= 1

\* item 1 failed in its fetch; item 2 has been resolved, fetched and played
C6_Witness ==
    /\ last.id = 2 /\ last.kind = "completed" /\ last.segs # <<>>
    /\ pc = "recv"
    /\ started = <<1, 2>>
    /\ renderLog = <<<<"start", 2>>, <<"end", 2>>>>
    /\ steps = <<"resolve", "spawn_tts", "join_tts", "spawn_play", "join_play">>

OpenAIWithoutKey ==
    env.DEFAULT_TTS = <<"O", "P", "E", "N", "A", "I">> /\ env.OPENAI_API_KEY = NotSet

\* C7: with DEFAULT_TTS=OPENAI and no OPENAI_API_KEY no fetch task is ever
\* spawned, nothing is played, and every ended item ended on the missing
\* credential right after the resolution; with any other backend setting no item
\* ends that way.
C7_MissingCredentialDropsItem ==
    /\ OpenAIWithoutKey =>
        /\ ttsTasks = {} /\ playTasks = {}
        /\ renderLog = <<>>
        /\ pc \notin {"await_tts", "await_play"}
        /\ last.kind \in {"none", "config_error"}
        /\ "spawn_tts" \notin Range(steps)
    /\ last.kind = "config_error" => OpenAIWithoutKey /\ last.segs = <<>>
    /\ (last.kind = "config_error" /\ pc = "recv") =>
        steps \in {<<"resolve">>, <<"toast_shown", "resolve">>, <<"toast_failed", "resolve">>}

\* two items in a row were dropped on the missing credential
C7_Witness ==
    /\ OpenAIWithoutKey
    /\ last.id = 2 /\ last.kind = "config_error"
    /\ pc = "recv"
    /\ steps = <<"toast_shown", "resolve">>

\* C8: a playback task exists only for a fetch that returned bytes; an item that
\* ended on a failed fetch has nothing in the sink and no rendering in the history.
C8_FetchFailurePlaysNothing ==
    /\ \A t \in playTasks : t.fetched \in {"ok_mp3", "ok_garbage"}
    /\ last.kind \in FetchFailures =>
        /\ last.segs = <<>>
        /\ \A i \in 1..Len(renderLog) : renderLog[i][2] # last.id
        /\ \A t \in playTasks : t.id # last.id
        /\ pc = "recv" => "spawn_play" \notin Range(steps)

\* item 1 was rendered, item 2 ended on a fetch error (retries exhausted)
C8_Witness ==
    /\ last.id = 2 /\ last.kind = "fetch_error"
    /\ renderLog = <<<<"start", 1>>, <<"end", 1>>>>
    /\ pc = "recv"
    /\ steps = <<"resolve", "spawn_tts", "join_tts">>

EdgeTasks == {t \in ttsTasks : t.provider = Edge}

EdgeErrs == {"connect_err", "synthesize_err"}

\* attempts started: each starts with a connect
Attempts(t) == Count(t.log, {"connect_ok", "connect_err"})

Sleeps(t) == Count(t.log, {"sleep"})

\* C9: at most 3 attempts; a successful synthesis is the last thing the task does
\* and its audio is the result; a failed attempt other than the third is followed
\* by exactly one 300 ms delay and then the next attempt; so a success on
\* attempt n comes after exactly n - 1 failures and n - 1 delays.
C9_EdgeRetrySuccess ==
    \A t \in EdgeTasks :
        /\ t.attempt \in 1..3
        /\ t.at # "sleep" => Attempts(t) \in {t.attempt, t.attempt - 1}
        /\ Attempts(t) <= 3
        /\ \A i \in 1..Len(t.log) :
            /\ t.log[i] = "synthesize_ok" =>
                i = Len(t.log) /\ t.result \in {"ok_mp3", "ok_garbage"}
            /\ t.log[i] = "connect_ok" /\ i < Len(t.log) =>
                t.log[i + 1] \in {"synthesize_ok", "synthesize_err"}
            /\ t.log[i] = "synthesize_ok" => t.log[i - 1] = "connect_ok"
            /\ (t.log[i] \in EdgeErrs /\ Count(SubSeq(t.log, 1, i), EdgeErrs) < 3) =>
                IF i = Len(t.log) THEN t.at = "sleep" /\ t.result = "running"
                ELSE t.log[i + 1] = "sleep"
            /\ t.log[i] = "sleep" =>
                /\ t.log[i - 1] \in EdgeErrs
                /\ i < Len(t.log) => t.log[i + 1] \in {"connect_ok", "connect_err"}
        /\ t.slept_ms = 300 * Sleeps(t)
        /\ t.result \in {"ok_mp3", "ok_garbage"} =>
            /\ t.log[Len(t.log)] = "synthesize_ok"
            /\ Attempts(t) = t.attempt
            /\ Count(t.log, EdgeErrs) = t.attempt - 1
            /\ Sleeps(t) = t.attempt - 1

\* a failed connect, a failed synthesis, then success: 3 attempts, 2 delays
C9_Witness ==
    \E t \in EdgeTasks :
        /\ t.result = "ok_mp3"
        /\ t.log = <<"connect_err", "sleep", "connect_ok", "synthesize_err", "sleep",
                     "connect_ok", "synthesize_ok">>
        /\ t.attempt = 3
        /\ t.slept_ms = 600

\* C10: get_edge_tts has returned an error iff three attempts have failed; the
\* error is the third attempt's; it is returned without a delay after the third
\* failure, after exactly two delays, and there is no fourth attempt.
C10_EdgeRetryExhaustion ==
    \A t \in EdgeTasks :
        /\ t.result \in {"err_connect", "err_synthesize"} <=>
                Count(t.log, EdgeErrs) = 3
        /\ Count(t.log, EdgeErrs) <= 3
        /\ Attempts(t) <= 3
        /\ Count(t.log, EdgeErrs) = 3 =>
            /\ t.log[Len(t.log)] \in EdgeErrs
            /\ t.result = (IF t.log[Len(t.log)] = "connect_err"
                           THEN "err_connect" ELSE "err_synthesize")
            /\ t.at = "done"
            /\ Attempts(t) = 3
            /\ Sleeps(t) = 2 /\ t.slept_ms = 600

\* two failed syntheses, then a failed connect: the connect error is returned
C10_Witness ==
    \E t \in EdgeTasks :
        /\ t.result = "err_connect"
        /\ t.log = <<"connect_ok", "synthesize_err", "sleep", "connect_ok",
                     "synthesize_err", "sleep", "connect_err">>
        /\ t.slept_ms = 600

\* HEADLESS_MODE is "true" in any letter case, or "1"
HeadlessOn ==
    \/ to_uppercase(env.HEADLESS_MODE) = <<"T", "R", "U", "E">>
    \/ env.HEADLESS_MODE = <<"1">>

IsPrefix(a, b) == Len(a) <= Len(b) /\ \A i \in 1..Len(a) : a[i] = b[i]

ExpectedSegments(tone_type) ==
    CASE tone_type = Quindar -> <<"quindar_500", "speech", "quindar_250">>
      [] tone_type = ThreeNote -> <<"three_note_chime", "speech", "closing_chime">>
      [] tone_type = NoTone -> <<"speech">>

\* C11: outside headless mode, what play_tones_and_audio has appended to the sink
\* is at every moment a prefix of: opening tone (Quindar 500 ms / three-note
\* chime / nothing for None), decoded speech, closing tone (Quindar 250 ms /
\* closing chime / nothing for None); once it has returned success the sink holds
\* the whole sequence and has consumed every segment of it, and an item that
\* ended completed was rendered as exactly such a sequence.
C11_SegmentsInOrder ==
    ~HeadlessOn =>
        /\ \A t \in playTasks :
            /\ IsPrefix(t.sink, ExpectedSegments(t.tone_type))
            /\ t.consumed <= Len(t.sink)
            /\ t.result = "ok" =>
                /\ t.fetched = "ok_mp3"
                /\ t.sink = ExpectedSegments(t.tone_type)
                /\ t.consumed = Len(t.sink)
        /\ last.kind = "completed" =>
            last.segs \in {ExpectedSegments(x) : x \in {Quindar, ThreeNote, NoTone}}

\* a three-note item has returned success with its three segments consumed
C11_Witness ==
    /\ ~HeadlessOn
    /\ \E t \in playTasks :
        /\ t.tone_type = ThreeNote
        /\ t.result = "ok"
        /\ t.sink = <<"three_note_chime", "speech", "closing_chime">>
        /\ t.consumed = 3

PlayFailures == {"device_error", "decode_error", "play_panic"}

\* C12: in headless mode play_tones_and_audio never leaves its first step
\* except by returning success: no task opens the device, decodes or appends a
\* segment, whatever was fetched and whatever the tone variant, nothing is ever
\* rendered, no item ends in a playback failure, and an item whose playback was
\* joined ended completed with the worker back at recv.  Headless mode is
\* HEADLESS_MODE "true" in any letter case or "1": under any other value a
\* playback that returned success did append to the sink.
C12_HeadlessSkipsPlayback ==
    /\ HeadlessOn =>
        /\ \A t \in playTasks :
            /\ t.at \in {"open", "done"}
            /\ t.result \in {"running", "ok"}
            /\ t.sink = <<>> /\ t.consumed = 0
        /\ renderLog = <<>>
        /\ last.kind \notin PlayFailures
        /\ last.kind = "completed" => last.segs = <<>>
        /\ "join_play" \in Range(steps) =>
            /\ last.kind = "completed"
            /\ pc = "recv" /\ req = NoReq
    /\ ~HeadlessOn =>
        \A t \in playTasks : t.result = "ok" => t.sink # <<>>

\* HEADLESS_MODE=1: bytes that no decoder accepts were "played" with success
\* for a three-note item, and the item ended completed
C12_Witness ==
    /\ env.HEADLESS_MODE = <<"1">>
    /\ last.kind = "completed" /\ last.id = 1 /\ last.segs = <<>>
    /\ \E t \in playTasks :
        /\ t.id = 2 /\ t.fetched = "ok_garbage" /\ t.tone_type = ThreeNote
        /\ t.result = "ok" /\ t.sink = <<>>

Toasts == {"toast_shown", "toast_failed"}

WithoutToast(st) == SelectSeq(st, LAMBDA x : x \notin Toasts)

\* the notification was dispatched for the current item, as the first thing done
ToastFirst(st) == st # <<>> /\ st[1] \in Toasts

\* C13: once the worker is past the notification step of an item, a
\* notification has been dispatched (shown or failed) iff the item's flag is
\* set; it is dispatched at most once and before the backend is resolved; the
\* step changes nothing but the log, whichever way the dispatch went, so every
\* later step of the item (resolve, spawn and join of the fetch, spawn and join
\* of the playback) is the same; and every item that ends, on a missing
\* credential or a fetch error too, ends with the notification dispatched iff
\* its flag was set.
C13_ToastIffFlagBeforeResolve ==
    /\ [](/\ Count(steps, Toasts) <= 1
          /\ \A i \in DOMAIN steps : steps[i] \in Toasts => i = 1
          /\ IsPrefix(WithoutToast(steps),
                      <<"resolve", "spawn_tts", "join_tts", "spawn_play", "join_play">>)
          /\ pc = "toast" => steps = <<>>
          /\ pc \in {"resolve", "await_tts", "await_play"} =>
                (req.enable_toast <=> ToastFirst(steps)))
    /\ [][/\ (pc = "toast" /\ pc' # "toast") =>
                /\ pc' = "resolve"
                /\ steps' \in {steps, <<"toast_shown">>, <<"toast_failed">>}
                /\ UNCHANGED <<env, queue, req, ttsTasks, playTasks, started,
                               renderLog, last, rx_open, tx_alive>>
          /\ (req # NoReq /\ req' = NoReq) =>
                /\ last'.id = req.id
                /\ req.enable_toast <=> ToastFirst(steps')]_vars

\* the notification failed to show, and the item was fetched and played to the end
C13_Witness ==
    /\ steps = <<"toast_failed", "resolve", "spawn_tts", "join_tts", "spawn_play",
                 "join_play">>
    /\ last.kind = "completed"
    /\ last.segs = <<"quindar_500", "speech", "quindar_250">>

\* the variant the claim names for a spelling, letter case ignored
VariantNamed(s) ==
    IF \/ eq_ignore_ascii_case(s, <<"n", "o", "-", "t", "o", "n", "e">>)
       \/ eq_ignore_ascii_case(s, <<"n", "o", "n", "e">>)
    THEN NoTone
    ELSE IF \/ eq_ignore_ascii_case(s, <<"t", "h", "r", "e", "e", "-", "n", "o", "t", "e">>)
            \/ eq_ignore_ascii_case(s, <<"t", "h", "r", "e", "e", "-", "n", "o", "t", "e",
                                        "-", "c", "h", "i", "m", "e">>)
            \/ eq_ignore_ascii_case(s, <<"c", "h", "i", "m", "e">>)
    THEN ThreeNote
    ELSE Quindar

ToneSelected == call.fn = "select_tone_type" /\ call.out # "pending"

\* C14: the variant the handler stores for a request: a tone field equal,
\* ignoring case, to "no-tone" or "none" gives None; to "three-note",
\* "three-note-chime" or "chime" gives ThreeNote; any other tone value gives
\* Quindar, whatever DEFAULT_TONE says; an absent tone gives the variant that
\* DEFAULT_TONE names by the same rule, Quindar when DEFAULT_TONE is unset.
C14_ToneSelection ==
    ToneSelected =>
        call.out = (IF call.tone # NoneOpt THEN VariantNamed(call.tone)
                    ELSE IF env.DEFAULT_TONE # NotSet THEN VariantNamed(env.DEFAULT_TONE)
                    ELSE Quindar)

\* an unrecognised tone value under DEFAULT_TONE=CHIME: Quindar, not the default
C14_Witness ==
    /\ ToneSelected
    /\ env.DEFAULT_TONE = <<"C", "H", "I", "M", "E">>
    /\ call.tone = <<"n", "o", "n", "e", "e">>
    /\ call.out = Quindar

QuindarDone ==
    call.fn = "generate_quindar_tone_samples" /\ call.status # "pending"

\* C15: (as claimed) for every duration_ms the call returns, without failing,
\* exactly 48000 * duration_ms / 1000 samples (48 per millisecond), 24000 for
\* 500 ms and 12000 for 250 ms, and the first sample's envelope is 0.
C15_SampleCountEveryDuration ==
    QuindarDone =>
        /\ call.status = "returned"
        /\ Len(call.envelopes) = 48 * call.duration_ms
        /\ call.duration_ms = 500 => Len(call.envelopes) = 24000
        /\ call.duration_ms = 250 => Len(call.envelopes) = 12000
        /\ call.envelopes # <<>> => call.envelopes[1] = 0

QuindarReturned ==
    call.fn = "generate_quindar_tone_samples" /\ call.status = "returned"

\* C16: (as claimed) in the buffer returned for any requested duration the
\* envelope (in units of 1/2400) does not decrease from one sample to the next
\* within the first 2400 samples, does not increase from one sample to the next
\* within the last 2400 samples, never exceeds 1 (2400/2400), and is 1 on every
\* sample between the two windows.
C16_EnvelopeShapeEveryDuration ==
    QuindarReturned =>
        LET e == call.envelopes
            n == Len(call.envelopes)
        IN
        /\ \A k \in 1..(n - 1) :
            /\ k + 1 <= 2400 => e[k] <= e[k + 1]
            /\ k > n - 2400 => e[k] >= e[k + 1]
        /\ \A k \in 1..n :
            /\ e[k] <= 2400
            /\ (k > 2400 /\ k <= n - 2400) => e[k] = 2400

InChime == call.fn = "generate_three_note_chime"

\* a sample of the current note has been processed
InNote == InChime /\ (call.i > 0 \/ call.idx > 0)

\* the note that the sample processed last belongs to
NoteOf(c) == IF c.i = 0 THEN c.idx - 1 ELSE c.idx

\* C17: the chime buffer is allocated with noteSamples + 2 * (noteSamples -
\* overlapSamples) + sampleRate / 2 = 38400 + 2 * (38400 - 14400) + 24000 =
\* 110400 samples and keeps that length; the samples of note k go to k * (38400 -
\* 14400) onwards, the first of them exactly there; and the length is the last
\* note's start (48000) plus the note duration (38400) plus 500 ms (24000).
C17_ChimeLength ==
    InChime =>
        /\ call.len = 110400
        /\ call.len = 38400 + 2 * (38400 - 14400) + (48000 \div 2)
        /\ call.len = 2 * (38400 - 14400) + 38400 + (500 * 48000) \div 1000
        /\ InNote =>
            /\ NoteOf(call) \in 0..2
            /\ call.start_position = NoteOf(call) * (38400 - 14400)
            /\ call.position >= call.start_position
            /\ call.position < call.start_position + 38400
            /\ (call.i = 1 \/ call.position = call.start_position) =>
                    call.position = NoteOf(call) * 24000

\* the first sample of the third note has just been added at 48000
C17_Witness ==
    /\ InChime
    /\ call.idx = 2 /\ call.i = 1
    /\ call.position = 48000 /\ call.len = 110400

\* the samples of the tone that opens / closes an item of this variant
OpeningSamples(tone_type) ==
    CASE tone_type = Quindar -> tone_samples("quindar_500")
      [] tone_type = ThreeNote -> tone_samples("three_note_chime")
      [] tone_type = NoTone -> <<>>

ClosingSamples(tone_type) ==
    CASE tone_type = Quindar -> tone_samples("quindar_250")
      [] tone_type = ThreeNote -> tone_samples("closing_chime")
      [] tone_type = NoTone -> <<>>

\* volume * m rounded toward zero, volume in halves
Scaled(m, volume) ==
    IF m * volume >= 0 THEN (m * volume) \div 2 ELSE -((-(m * volume)) \div 2)

\* ... and held within the 16-bit range
Saturated(x) == IF x > 32767 THEN 32767 ELSE IF x < -32768 THEN -32768 ELSE x

SpeechOf(t) == decoded(t.fetched)

\* the speech part of what the task has appended so far
SpeechPart(t) ==
    SubSeq(t.stream, Len(OpeningSamples(t.tone_type)) + 1,
           Len(OpeningSamples(t.tone_type)) + Len(SpeechOf(t)))

SpeechAppended(t) == "speech" \in Range(t.sink)

\* C18 (as claimed): every decoded sample m of the speech is in the appended
\* stream as volume * m (up to the rounding of a 16-bit sample), 2m at volume
\* 2.0, with no clipping.
C18_GainUnclipped ==
    \A t \in playTasks :
        SpeechAppended(t) =>
            \A k \in 1..Len(SpeechOf(t)) :
                LET twice == 2 * SpeechPart(t)[k] - t.volume * SpeechOf(t)[k] IN
                twice \in -1..1

\* C18 (amended): the stream appended to the sink is always a prefix of: the
\* opening tone's samples as generated, then each decoded sample m as volume * m
\* rounded toward zero and saturated at the 16-bit range (so exactly volume * m,
\* rounded, whenever that lies within -32768..32767), then the closing tone's
\* samples as generated; the tone samples are the same under every volume, and a
\* playback that returned success outside headless mode appended the whole of it.
C18_GainOnSpeechOnly ==
    \A t \in playTasks :
        LET expected ==
                OpeningSamples(t.tone_type)
                \o [k \in 1..Len(SpeechOf(t)) |->
                        Saturated(Scaled(SpeechOf(t)[k], t.volume))]
                \o ClosingSamples(t.tone_type)
        IN
        /\ IsPrefix(t.stream, expected)
        /\ (t.result = "ok" /\ ~HeadlessOn) => t.stream = expected
        /\ SpeechAppended(t) =>
            \A k \in 1..Len(SpeechOf(t)) :
                Scaled(SpeechOf(t)[k], t.volume) \in -32768..32767 =>
                    SpeechPart(t)[k] = Scaled(SpeechOf(t)[k], t.volume)

\* volume 2.0, Quindar: 1000 became 2000, while -20000 and 32767 were held at
\* the ends of the 16-bit range; the tones are as generated
C18_Witness ==
    \E t \in playTasks :
        /\ t.volume = 4 /\ t.tone_type = Quindar /\ t.result = "ok"
        /\ t.stream = <<0, 16384, -16384, 16384, 6, 2000, -32768, 32767,
                        0, 16384, -16384>>

\* what the configuration of this moment says
BackendNow == IF env.DEFAULT_TTS = <<"O", "P", "E", "N", "A", "I">> THEN OpenAI ELSE Edge

DefaultToneNow ==
    IF env.DEFAULT_TONE = NotSet THEN Quindar ELSE VariantNamed(env.DEFAULT_TONE)

DefaultToastNow ==
    /\ env.ENABLE_TOAST_NOTIFICATIONS # NotSet
    /\ to_uppercase(env.ENABLE_TOAST_NOTIFICATIONS) = <<"T", "R", "U", "E">>

\* C19: the fetch of an item is spawned for the backend that the configuration
\* names at the step that processes the item; a request that leaves tone and
\* notification to the defaults is queued with the defaults of the moment of
\* the handler call stored in it; no step, a configuration change included,
\* changes a request that is queued or being processed; and the playback is
\* spawned with the variant stored in the request.
C19_BackendLateDefaultsEarly ==
    [][/\ (pc = "resolve" /\ pc' = "await_tts") =>
            \E t \in ttsTasks' \ ttsTasks : t.id = req.id /\ t.provider = BackendNow
       /\ (next_id' = next_id + 1 /\ queue' # queue) =>
            /\ queue'[Len(queue')].id = next_id
            /\ queue'[Len(queue')].tone_type = DefaultToneNow
            /\ queue'[Len(queue')].enable_toast = DefaultToastNow
       /\ \A i \in 1..Len(queue) : queue[i] \in Range(queue') \/ req' = queue[i]
       /\ req # NoReq => req' \in {req, NoReq}
       /\ (pc = "await_tts" /\ pc' = "await_play") =>
            \E t \in playTasks' \ playTasks :
                t.id = req.id /\ t.tone_type = req.tone_type /\ t.volume = req.volume
      ]_vars

\* request 2 was queued under the first configuration (three-note chime, toast,
\* Edge) and is fetched from OpenAI, the backend of the configuration in force
\* now, whose default tone is None and whose default is not to notify
C19_Witness ==
    /\ env = EnvAfter
    /\ req.id = 2 /\ req.tone_type = ThreeNote /\ req.enable_toast
    /\ steps = <<"toast_shown", "resolve", "spawn_tts">>
    /\ \E t \in ttsTasks : t.id = 2 /\ t.provider = OpenAI /\ t.at = "read"

Unresolved(tasks) == {t.id : t \in {x \in tasks : x.result = "running"}}

Terminal == Failures \cup {"completed"}

\* request id has been received by the worker and has ended (items end in
\* arrival order, one at a time)
Ended(id) == id \in Range(started) /\ last.id >= id /\ last.kind \in Terminal

\* C20: if the runtime keeps running the ready task and every fetch step and
\* playback step ends, every accepted request is eventually received by the
\* worker and eventually ended with a terminal outcome (at infinitely many
\* moments the request is not yet accepted or has ended: once accepted it stays
\* accepted, so it ends); and, with or without that, as long as the fetch or
\* the playback of an item is unresolved no later item is received and none is
\* ended, while a further handler call stays possible and queues its request.
C20_EveryRequestEnds ==
    /\ \A id \in 1..MaxReq : []<>(next_id > id => Ended(id))
    /\ [][(\/ Unresolved(ttsTasks) \cap Unresolved(ttsTasks') # {}
           \/ Unresolved(playTasks) \cap Unresolved(playTasks') # {}) =>
                /\ started' = started
                /\ last' = last
                /\ next_id' = next_id + 1 => queue' # queue /\ response' = Queued]_vars
    /\ []((Unresolved(ttsTasks) \cup Unresolved(playTasks) # {} /\ next_id <= MaxReq) =>
                ENABLED Enqueue)

\* three requests were accepted, received in order, and the third has ended
C20_Witness ==
    /\ next_id = 4
    /\ started = <<1, 2, 3>>
    /\ last.id = 3 /\ last.kind = "fetch_error"
    /\ queue = <<>> /\ pc = "recv"

\* what the sink holds once the opening tone step is done
OpeningOnly(tone_type) ==
    CASE tone_type = Quindar -> <<"quindar_500">>
      [] tone_type = ThreeNote -> <<"three_note_chime">>
      [] tone_type = NoTone -> <<>>

\* C21: outside headless mode, when play_tones_and_audio comes to decode the
\* speech the sink holds exactly the opening tone of the variant (nothing for
\* None); a playback that returned a decode error was handed undecodable bytes
\* and left the sink with that opening tone alone, no speech and no closing
\* tone, and stopped rendering when it returned; an item that ended with a
\* decode error was rendered as the opening tone alone, the worker is back at
\* recv without a request, and it can receive the next queued request.
C21_DecodeFailureAfterOpeningTone ==
    ~HeadlessOn =>
        /\ \A t \in playTasks :
            /\ (t.result = "running" /\ t.at = "decode") =>
                    t.sink = OpeningOnly(t.tone_type)
            /\ t.result = "err_decode" =>
                /\ t.fetched = "ok_garbage"
                /\ t.at = "done"
                /\ t.sink = OpeningOnly(t.tone_type)
                /\ t.stream = (IF t.sink = <<>> THEN <<>> ELSE tone_samples(t.sink[1]))
                /\ t.consumed <= Len(t.sink)
                /\ t.sink # <<>> => renderLog[Len(renderLog)] = <<"end", t.id>>
        /\ (last.kind = "decode_error" /\ "join_play" \in Range(steps)) =>
            /\ last.segs \in {<<"quindar_500">>, <<"three_note_chime">>, <<>>}
            /\ pc = "recv" /\ req = NoReq
            /\ queue # <<>> => ENABLED WorkerRecv

\* a Quindar item failed to decode with its opening tone appended and not a
\* segment consumed, while request 2 waits to be received
C21_Witness ==
    /\ ~HeadlessOn
    /\ \E t \in playTasks :
        /\ t.id = 1 /\ t.tone_type = Quindar /\ t.result = "err_decode"
        /\ t.sink = <<"quindar_500">> /\ t.consumed = 0
    /\ Len(queue) = 1 /\ queue[1].id = 2

\* C22: for every sample of every note of the chime, the main position start +
\* i, the first echo position start + i + 5760 and the second echo position
\* start + i + 11520 are below the buffer length 110400: all three guarded
\* additions of the iteration are made, and up to the return no bounds check
\* has discarded a contribution.
C22_ChimeWritesInsideBuffer ==
    InChime =>
        /\ call.skipped = 0
        /\ InNote =>
            /\ call.position >= 0
            /\ call.echo1_pos = call.position + 5760
            /\ call.echo2_pos = call.position + 11520
            /\ call.position < 110400
            /\ call.echo1_pos < 110400
            /\ call.echo2_pos < 110400
            /\ call.echo2_pos < call.len
            /\ call.writes = 3

\* the last sample of the third note: its second echo lands at 97919, and the
\* call returns with nothing discarded
C22_Witness ==
    /\ InChime
    /\ call.status = "returned"
    /\ call.idx = 3
    /\ call.position = 86399 /\ call.echo1_pos = 92159 /\ call.echo2_pos = 97919
    /\ call.writes = 3 /\ call.skipped = 0

\* the product sample_rate * duration_ms of the call fits in 32 bits
ProductFits == ~overflows_u32(wide_mul(sample_rate, call.duration_ms))

\* C23: whenever 48000 * duration_ms fits in 32 bits, total_samples -
\* release_samples is never evaluated with total_samples < release_samples (no
\* sample's envelope is the underflow); in a buffer shorter than 50 ms (2400
\* samples) every sample takes the fade-in branch i / 2400; and every sample of
\* the fade-out branch has total_samples - i at least 1.
C23_NoEnvelopeUnderflow ==
    (QuindarReturned /\ ProductFits) =>
        LET e == call.envelopes
            n == Len(call.envelopes)
        IN
        /\ n = 48 * call.duration_ms
        /\ \A k \in 1..n :
            /\ e[k] # -1
            /\ e[k] >= 0
            /\ n < 2400 => e[k] = k - 1
            /\ (k - 1 >= 2400 /\ k - 1 > n - 2400) =>
                  (e[k] = n - (k - 1) /\ e[k] >= 1)

\* a 49 ms tone: 2352 samples, the last of them still fading in
C23_Witness ==
    /\ QuindarReturned /\ ProductFits
    /\ call.duration_ms = 49
    /\ Len(call.envelopes) = 2352
    /\ call.envelopes[2352] = 2351

\* C24: the receiving end of the queue is closed only by the worker loop
\* observing that every sender has been dropped; the server state keeps its
\* sender and no item outcome ends the loop, so the receiver stays open, every
\* enqueue appends its transmission and is answered "Queued", and the response
\* "Error: Failed to queue transmission" is never given.
C24_EnqueueCannotFail ==
    /\ [][(rx_open /\ ~rx_open') => (~tx_alive /\ pc = "recv" /\ queue = <<>>)]_vars
    /\ [][(next_id' # next_id) =>
            (response' = Queued /\ Len(queue') = Len(queue) + 1)]_vars
    /\ [](/\ tx_alive /\ rx_open /\ pc # "stopped"
          /\ response # QueueError
          /\ next_id > 1 => response = Queued)

\* two items have ended, the second by a decode failure, and the third enqueue
\* has been answered "Queued" with its transmission waiting in the channel
C24_Witness ==
    /\ response = Queued
    /\ started = <<1, 2>>
    /\ last.id = 2 /\ last.kind = "decode_error"
    /\ pc = "recv" /\ rx_open /\ tx_alive
    /\ Len(queue) = 1 /\ queue[1].id = 3

====
